---------------------------- MODULE Spec2Model ----------------------------
(***************************************************************************)
(* A model of odoo_api_lib: the API class of src/src/api.py (configuration *)
(* resolution and validation, connection establishment, query dispatch and *)
(* the six public operations) together with the XML-RPC endpoint it talks  *)
(* to, as far as src/test/test.py describes that endpoint.                 *)
(*                                                                         *)
(* Python values are tagged records [t |-> type name, v |-> content]:      *)
(* a str is the sequence of its characters, an int or bool the one-element *)
(* sequence of its number, a list or tuple the sequence of its items, a    *)
(* dict the sequence of its <<key, value>> pairs, a class object the       *)
(* one-element sequence of its name.                                       *)
(***************************************************************************)
EXTENDS Integers, Sequences, FiniteSets, TLC

(***************************************************************************)
(* Python values                                                           *)
(***************************************************************************)
Py(t, v) == [t |-> t, v |-> v]

PyNone == Py("NoneType", <<>>)

PyFalse == Py("bool", <<0>>)

PyTrue == Py("bool", <<1>>)

PyInt(n) == Py("int", <<n>>)

PyStr(chars) == Py("str", chars)

PyList(items) == Py("list", items)

PyTuple(items) == Py("tuple", items)

PyDict(pairs) == Py("dict", pairs)

\* The class objects `dict` and `list`, which api.py uses as parameter defaults.
PyClass(name) == Py("type", <<name>>)

\* A keyword argument that was not passed, an environment variable that is not set.
Missing == Py("<missing>", <<>>)

\* bool(x): the truth value Python gives x.
Truthy(x) ==
    CASE x.t = "NoneType" -> FALSE
      [] x.t \in {"bool", "int"} -> x.v[1] # 0
      [] x.t \in {"str", "list", "tuple", "dict"} -> Len(x.v) > 0
      [] OTHER -> TRUE

PyBool(x) == IF Truthy(x) THEN PyTrue ELSE PyFalse

Digits == <<"0", "1", "2", "3", "4", "5", "6", "7", "8", "9">>

IsDigit(c) == \E i \in 1..Len(Digits) : Digits[i] = c

DigitValue(c) == (CHOOSE i \in 1..Len(Digits) : Digits[i] = c) - 1

RECURSIVE Strip(_)
\* str.strip() for the blank character.
Strip(s) ==
    IF s # <<>> /\ Head(s) = " " THEN Strip(Tail(s))
    ELSE IF s # <<>> /\ s[Len(s)] = " " THEN Strip(SubSeq(s, 1, Len(s) - 1))
    ELSE s

RECURSIVE DecimalValue(_, _)
\* The number a sequence of digits denotes, most significant digit first.
DecimalValue(s, acc) ==
    IF s = <<>> THEN acc ELSE DecimalValue(Tail(s), 10 * acc + DigitValue(Head(s)))

\* int(x) for a str: blanks stripped, an optional sign, then one or more digits.
ParseInt(s) ==
    LET body == Strip(s)
        signed == body # <<>> /\ Head(body) \in {"-", "+"}
        digits == IF signed THEN Tail(body) ELSE body
    IN  IF digits # <<>> /\ \A i \in 1..Len(digits) : IsDigit(digits[i])
        THEN [ok |-> TRUE,
              value |-> IF signed /\ Head(body) = "-"
                        THEN 0 - DecimalValue(digits, 0)
                        ELSE DecimalValue(digits, 0)]
        ELSE [ok |-> FALSE, value |-> 0]

\* int(x): the integer, or the exception Python raises.
PyIntOf(x) ==
    CASE x.t \in {"int", "bool"} -> [ok |-> TRUE, value |-> PyInt(x.v[1]), exc |-> "none"]
      [] x.t = "str" ->
            IF ParseInt(x.v).ok
            THEN [ok |-> TRUE, value |-> PyInt(ParseInt(x.v).value), exc |-> "none"]
            ELSE [ok |-> FALSE, value |-> PyNone, exc |-> "ValueError"]
      [] OTHER -> [ok |-> FALSE, value |-> PyNone, exc |-> "TypeError"]

\* `sub in s` for two strs.
Contains(sub, s) ==
    \E i \in 0..(Len(s) - Len(sub)) : SubSeq(s, i + 1, i + Len(sub)) = sub

RECURSIVE Join(_, _)
\* sep.join(names)
Join(sep, names) ==
    IF names = <<>> THEN ""
    ELSE IF Len(names) = 1 THEN names[1]
    ELSE names[1] \o sep \o Join(sep, Tail(names))

(***************************************************************************)
(* Exceptions                                                              *)
(***************************************************************************)
NoException == [type |-> "none", field |-> "", message |-> ""]

InputError(field, message) == [type |-> "InputError", field |-> field, message |-> message]

\* An exception the library does not raise itself and lets through unchanged.
Propagated(type) == [type |-> type, field |-> "", message |-> ""]

(***************************************************************************)
(* The strings of the model                                                *)
(***************************************************************************)
HttpHost == <<"h", "t", "t", "p", ":", "/", "/", "h">>

HttpsHost == <<"h", "t", "t", "p", "s", ":", "/", "/", "h">>

\* A plain-http host whose name happens to contain "https".
HttpNamedHttps == <<"h", "t", "t", "p", ":", "/", "/", "h", "t", "t", "p", "s">>

\* The secure scheme in capitals: a URL scheme is case-insensitive.
UpperHttpsHost == <<"H", "T", "T", "P", "S", ":", "/", "/", "h">>

Https == <<"h", "t", "t", "p", "s">>

ObjectPath == <<"/", "x", "m", "l", "r", "p", "c", "/", "2", "/", "o", "b", "j", "e", "c", "t">>

DbName == <<"d", "b">>

EnvDbName == <<"e", "d", "b">>

Password == <<"p", "w">>

EnvPassword == <<"e", "p", "w">>

FieldNames == {"odoo_host", "odoo_database", "odoo_user", "odoo_pass", "verify_tls"}


(***************************************************************************)
(* State                                                                   *)
(***************************************************************************)
VARIABLES
    environ,      \* os.environ: the five variables the library reads
    kwargs,       \* the keyword arguments API(...) was called with
    self,         \* the API object, NoObject until one is constructed
    stdout,       \* the lines printed so far
    call,         \* the method last called on the object, with its arguments
    raised,       \* the exception the last call raised, NoException if none
    returned,     \* the value the last call returned, Missing if none
    connections,  \* every ServerProxy created so far, with the calls made on it
    request,      \* the last execute_kw call: proxy, arguments, outcome
    records,      \* the endpoint's stored records: id -> name
    next_id,      \* the id the endpoint gives the next created record
    validated     \* the number of _query calls that passed the query_type check

vars == <<environ, kwargs, self, stdout, call, raised, returned,
          connections, request, records, next_id, validated>>

NoObject == [hostname |-> Missing, database |-> Missing, user_id |-> Missing,
             user_pass |-> Missing, verify_tls |-> Missing]

NoCall == [method |-> "none", query_type |-> "", model |-> Missing,
           query |-> Missing, options |-> Missing]

NoRequest == [proxy |-> 0, args |-> <<>>, outcome |-> "none", result |-> Missing]

NoKwargs == [f \in FieldNames |-> Missing]

(***************************************************************************)
(* API.__init__                                                            *)
(***************************************************************************)
\* The three messages of __init__, without the backquotes the source puts around
\* the export command.
HostMessage ==
    "The hostname of your Odoo instance is required "
    \o "Set this by doing export odoo_host='<your hostname>' "
    \o "and run the script again"

DatabaseMessage ==
    "The database name of your Odoo instance is required "
    \o "Set this by doing export odoo_database='<your database>' "
    \o "and run the script again"

PasswordMessage ==
    "The password of your Odoo user is required "
    \o "Set this by doing export odoo_pass='<your password>' "
    \o "and run the script again"

UserWarning == "WARNING: The odoo user id is not set, defaulting to the admin user"

\* Lookup with the environment consulted before the keyword arguments.
Lookup_EnvironFirst(kw, env, name, default) ==
    IF env[name] # Missing THEN env[name]
    ELSE IF kw[name] # Missing THEN kw[name]
    ELSE default

\* kwargs.get(name, os.environ.get(name, default))
Lookup(kw, env, name, default) ==
    IF kw[name] # Missing THEN kw[name]
    ELSE IF env[name] # Missing THEN env[name]
    ELSE default

\* ResolveUserId without the default for a falsy user id.
ResolveUserId_NoDefault(user_id) == PyIntOf(user_id)

\* The user id __init__ settles on: 1 for a falsy one, int() of any other.
ResolveUserId(user_id) ==
    IF ~Truthy(user_id)
    THEN [ok |-> TRUE, value |-> PyInt(1), exc |-> "none"]
    ELSE PyIntOf(user_id)

\* bool(kwargs.get("verify_tls", os.environ.get("verify_tls", True)))
ResolveVerifyTls(kw, env) == PyBool(Lookup(kw, env, "verify_tls", PyTrue))

\* The exception __init__ raises for these attribute values, in the order of its checks.
InitException(hostname, database, user_id, user_pass) ==
    IF ~Truthy(hostname) THEN InputError("odoo_host", HostMessage)
    ELSE IF ~Truthy(database) THEN InputError("odoo_database", DatabaseMessage)
    ELSE IF ~ResolveUserId(user_id).ok THEN Propagated(ResolveUserId(user_id).exc)
    ELSE IF ~Truthy(user_pass) THEN InputError("odoo_pass", PasswordMessage)
    ELSE NoException

\* Whether __init__ gets as far as its user id check and prints the warning there.
InitWarns(hostname, database, user_id) ==
    Truthy(hostname) /\ Truthy(database) /\ ~Truthy(user_id)

__init__(kw) ==
    LET hostname == Lookup(kw, environ, "odoo_host", PyFalse)
        database == Lookup(kw, environ, "odoo_database", PyFalse)
        user_id == Lookup(kw, environ, "odoo_user", PyFalse)
        user_pass == Lookup(kw, environ, "odoo_pass", PyFalse)
        verify_tls == ResolveVerifyTls(kw, environ)
        exc == InitException(hostname, database, user_id, user_pass)
    IN  /\ self = NoObject
        /\ raised = NoException
        /\ kwargs' = kw
        /\ call' = [NoCall EXCEPT !.method = "__init__"]
        /\ raised' = exc
        /\ stdout' = IF InitWarns(hostname, database, user_id)
                     THEN Append(stdout, UserWarning) ELSE stdout
        /\ self' = IF exc = NoException
                   THEN [hostname |-> hostname, database |-> database,
                         user_id |-> ResolveUserId(user_id).value,
                         user_pass |-> user_pass, verify_tls |-> verify_tls]
                   ELSE NoObject
        /\ UNCHANGED <<environ, returned, connections, request, records,
                       next_id, validated>>

(***************************************************************************)
(* Inputs of the configuration specification                               *)
(***************************************************************************)
ConfigKwargs ==
    [odoo_host : {Missing, PyStr(<<>>), PyStr(HttpsHost)},
     odoo_database : {Missing, PyNone, PyStr(DbName)},
     odoo_user : {Missing, PyInt(0), PyInt(7), PyStr(<<"7">>),
                  PyStr(<<" ", "4", "2">>), PyStr(<<"x">>), PyStr(<<>>)},
     odoo_pass : {Missing, PyStr(<<>>), PyStr(Password)},
     verify_tls : {Missing, PyFalse, PyInt(0), PyStr(<<"n", "o">>)}]

\* An environment variable, when set, is a str.
ConfigEnviron ==
    [odoo_host : {Missing, PyStr(HttpHost)},
     odoo_database : {Missing, PyStr(EnvDbName)},
     odoo_user : {Missing, PyStr(<<"5">>), PyStr(<<>>)},
     odoo_pass : {Missing, PyStr(EnvPassword)},
     verify_tls : {Missing, PyStr(<<"F", "a", "l", "s", "e">>), PyStr(<<>>)}]

InitialRecords == [i \in {1} |-> <<"O">>]

Blank ==
    /\ kwargs = NoKwargs
    /\ self = NoObject
    /\ stdout = <<>>
    /\ call = NoCall
    /\ raised = NoException
    /\ returned = Missing
    /\ connections = <<>>
    /\ request = NoRequest
    /\ records = InitialRecords
    /\ next_id = 2
    /\ validated = 0

ConfigInit == environ \in ConfigEnviron /\ Blank

ConfigNext == \E kw \in ConfigKwargs : __init__(kw)

ConfigSpec == ConfigInit /\ [][ConfigNext]_vars


(***************************************************************************)
(* The XML-RPC endpoint: what xmlrpc.client and the server do with one     *)
(* execute_kw call.  The library holds no code of either; the endpoint is  *)
(* the record store that src/test/test.py expects, one model with the      *)
(* fields id and name.                                                     *)
(***************************************************************************)
NameKey == PyStr(<<"n", "a", "m", "e">>)

IdKey == PyStr(<<"i", "d">>)

LimitKey == PyStr(<<"l", "i", "m", "i", "t">>)

OffsetKey == PyStr(<<"o", "f", "f", "s", "e", "t">>)

FieldsKey == PyStr(<<"f", "i", "e", "l", "d", "s">>)

Partner == PyStr(<<"r", "e", "s", ".", "p", "a", "r", "t", "n", "e", "r">>)

RECURSIVE Marshallable(_)
\* Whether xmlrpc.client can put x on the wire: it raises TypeError for None
\* (allow_none is off by default) and for a class object.
Marshallable(x) ==
    CASE x.t \in {"int", "bool", "str"} -> TRUE
      [] x.t \in {"list", "tuple"} -> \A i \in 1..Len(x.v) : Marshallable(x.v[i])
      [] x.t = "dict" -> \A i \in 1..Len(x.v) : Marshallable(x.v[i][2])
      [] OTHER -> FALSE

HasKey(d, key) == \E i \in 1..Len(d.v) : d.v[i][1] = key

DictGet(d, key, default) ==
    IF HasKey(d, key) THEN d.v[CHOOSE i \in 1..Len(d.v) : d.v[i][1] = key][2]
    ELSE default

IsIdList(x) == x.t = "list" /\ \A i \in 1..Len(x.v) : x.v[i].t = "int"

\* A domain: a list of (field, operator, value) filters.
IsDomain(x) ==
    x.t = "list" /\ \A i \in 1..Len(x.v) : x.v[i].t = "tuple" /\ Len(x.v[i].v) = 3

IdsOf(idlist) == {idlist.v[i].v[1] : i \in 1..Len(idlist.v)}

\* The endpoint filters on ("id", "=", n) alone.
Matches(id, domain) ==
    \A i \in 1..Len(domain.v) :
        (domain.v[i].v[1] = IdKey /\ domain.v[i].v[3].t = "int")
            => id = domain.v[i].v[3].v[1]

RECURSIVE Ascending(_)
Ascending(ids) ==
    IF ids = {} THEN <<>>
    ELSE LET least == CHOOSE i \in ids : \A j \in ids : i <= j
         IN  <<least>> \o Ascending(ids \ {least})

\* The ids a search gives: those matching, from `offset`, at most `limit` (0: all).
RemoteSearch(recs, domain, options) ==
    LET found == Ascending({i \in DOMAIN recs : Matches(i, domain)})
        offset == DictGet(options, OffsetKey, PyInt(0)).v[1]
        limit == DictGet(options, LimitKey, PyInt(0)).v[1]
        last == IF limit = 0 THEN Len(found) ELSE offset + limit
    IN  SubSeq(found, offset + 1, IF last < Len(found) THEN last ELSE Len(found))

RecordDict(recs, id) == PyDict(<< <<IdKey, PyInt(id)>>, <<NameKey, PyStr(recs[id])>> >>)

\* The records a read gives: one mapping per id that exists.
RemoteRead(recs, ids) ==
    LET found == SelectSeq(ids, LAMBDA i : i \in DOMAIN recs)
    IN  PyList([k \in 1..Len(found) |-> RecordDict(recs, found[k])])

RemoteCreate(recs, id, fields) ==
    [i \in DOMAIN recs \cup {id} |->
        IF i = id THEN DictGet(fields, NameKey, PyStr(<<>>)).v ELSE recs[i]]

RemoteWrite(recs, ids, values) ==
    [i \in DOMAIN recs |->
        IF i \in ids /\ HasKey(values, NameKey) THEN DictGet(values, NameKey, PyNone).v
        ELSE recs[i]]

RemoteUnlink(recs, ids) == [i \in DOMAIN recs \ ids |-> recs[i]]

Answer(result, recs, id) ==
    [outcome |-> "result", result |-> result, records |-> recs, next_id |-> id]

Failure(type) ==
    [outcome |-> type, result |-> Missing, records |-> records, next_id |-> next_id]

\* proxy.execute_kw(database, user_id, password, model, method, args, kw): the
\* arguments are marshalled, then the endpoint runs method(*args, **kw).
execute_kw(database, user_id, password, model, method, args, kw) ==
    LET query == args.v[1]
        ids == [k \in 1..Len(query.v) |-> query.v[k].v[1]]
    IN  IF ~(Marshallable(args) /\ Marshallable(kw) /\ Marshallable(model))
        THEN Failure("TypeError")
        ELSE IF kw.t # "dict" THEN Failure("Fault")
        ELSE CASE method = "search" /\ IsDomain(query) ->
                    LET found == RemoteSearch(records, query, kw)
                    IN  Answer(PyList([k \in 1..Len(found) |-> PyInt(found[k])]),
                               records, next_id)
               [] method = "search_read" /\ IsDomain(query) ->
                    Answer(RemoteRead(records, RemoteSearch(records, query, kw)),
                           records, next_id)
               [] method = "read" /\ IsIdList(query) ->
                    Answer(RemoteRead(records, ids), records, next_id)
               [] method = "create" /\ query.t = "dict" ->
                    Answer(PyInt(next_id), RemoteCreate(records, next_id, query),
                           next_id + 1)
               [] method = "write" /\ IsIdList(query) ->
                    Answer(PyTrue, RemoteWrite(records, IdsOf(query), kw), next_id)
               [] method = "unlink" /\ IsIdList(query) ->
                    Answer(PyTrue, RemoteUnlink(records, IdsOf(query)), next_id)
               [] OTHER -> Failure("Fault")

(***************************************************************************)
(* API._connect and API._query                                             *)
(***************************************************************************)
\* QUERY_TYPES with its last name left out.
QUERY_TYPES_Short == <<"search", "create", "read", "write", "unlink">>

QUERY_TYPES == <<"search", "create", "read", "write", "unlink", "search_read">>

QueryTypeMessage ==
    "Incorrect Type of query. Available types are: " \o Join(", ", QUERY_TYPES)

\* query_type in self.QUERY_TYPES
IsQueryType(query_type) == \E i \in 1..Len(QUERY_TYPES) : QUERY_TYPES[i] = query_type

\* "%s/xmlrpc/2/object" % (self.hostname)
Endpoint(hostname) == hostname.v \o ObjectPath

\* _connect with the verify_tls flag left out of its test.
_connect_IgnoresVerifyTls ==
    LET endpoint == Endpoint(self.hostname)
    IN  IF Contains(Https, endpoint)
        THEN [endpoint |-> endpoint, context |-> "unverified", calls |-> 0]
        ELSE [endpoint |-> endpoint, context |-> "default", calls |-> 0]

\* The ServerProxy _connect returns: its endpoint and its TLS context.
_connect ==
    LET endpoint == Endpoint(self.hostname)
    IN  IF Contains(Https, endpoint) /\ ~Truthy(self.verify_tls)
        THEN [endpoint |-> endpoint, context |-> "unverified", calls |-> 0]
        ELSE [endpoint |-> endpoint, context |-> "default", calls |-> 0]

\* Connect with one pooled proxy that every call after the first uses again.
Connect_Pooled(conns, proxy) ==
    IF conns = <<>> THEN Append(conns, [proxy EXCEPT !.calls = 1])
    ELSE [conns EXCEPT ![1].calls = @ + 1]

\* self._connect().execute_kw(...): a proxy of its own for the call, used once.
Connect(conns, proxy) == Append(conns, [proxy EXCEPT !.calls = 1])

\* QueryArgs with the user id and the password in the place of each other.
QueryArgs_SwappedCredentials(query_type, model, query, options) ==
    <<self.database, self.user_pass, self.user_id, model, query_type,
      PyList(<<query>>), options>>

\* The arguments _query hands to execute_kw.
QueryArgs(query_type, model, query, options) ==
    <<self.database, self.user_id, self.user_pass, model, query_type,
      PyList(<<query>>), options>>

\* _query as called by `method`, whose caller passed `given`.
_query(method, given, query_type, model, query, options) ==
    /\ self # NoObject
    /\ call' = [method |-> method, query_type |-> query_type, model |-> given.model,
                query |-> given.query, options |-> given.options]
    /\ IF ~IsQueryType(query_type)
       THEN /\ raised' = InputError("query_type", QueryTypeMessage)
            /\ returned' = Missing
            /\ UNCHANGED <<connections, request, records, next_id, validated>>
       ELSE \E args \in {QueryArgs(query_type, model, query, options)} :
            \E reply \in {execute_kw(args[1], args[2], args[3], args[4], args[5],
                                     args[6], args[7])} :
                /\ validated' = validated + 1
                /\ connections' = Connect(connections, _connect)
                /\ request' = [proxy |-> Len(connections) + 1, args |-> args,
                               outcome |-> reply.outcome, result |-> reply.result]
                /\ records' = reply.records
                /\ next_id' = reply.next_id
                /\ returned' = reply.result
                /\ raised' = IF reply.outcome = "result" THEN NoException
                             ELSE Propagated(reply.outcome)
    /\ UNCHANGED <<environ, kwargs, self, stdout>>

\* The value a parameter takes: the argument, or the default when none is passed.
Param(argument, default) == IF argument = Missing THEN default ELSE argument

Given(model, query, options) == [model |-> model, query |-> query, options |-> options]

(***************************************************************************)
(* The public operations                                                   *)
(***************************************************************************)
\* search(self, model, query=list, options=dict): the query search passes on.
SearchQuery(query) ==
    IF ~Truthy(Param(query, PyClass("list"))) THEN PyList(<<>>)
    ELSE Param(query, PyClass("list"))

\* The options search passes on.
SearchOptions(options) ==
    IF ~Truthy(Param(options, PyClass("dict")))
    THEN PyDict(<< <<LimitKey, PyInt(0)>> >>)
    ELSE Param(options, PyClass("dict"))

search(model, query, options) ==
    _query("search", Given(model, query, options),
           "search", model, SearchQuery(query), SearchOptions(options))

\* _query(self, query_type, model, query, options=dict) called without options.
DefaultOptions == PyClass("dict")

create(model, query) ==
    _query("create", Given(model, query, Missing),
           "create", model, query, DefaultOptions)

read(model, query, options) ==
    _query("read", Given(model, query, options),
           "read", model, query, Param(options, PyClass("dict")))

update(model, query, options) ==
    _query("update", Given(model, query, options),
           "write", model, query, Param(options, PyClass("dict")))

delete(model, query) ==
    _query("delete", Given(model, query, Missing),
           "unlink", model, query, DefaultOptions)

search_and_read(model, query, options) ==
    _query("search_and_read", Given(model, query, options),
           "search_read", model, query, Param(options, PyClass("dict")))

\* _query called by the user of the library, with any name.
query_direct(query_type, model, query, options) ==
    _query("_query", Given(model, query, options),
           query_type, model, query, Param(options, DefaultOptions))

(***************************************************************************)
(* The specification of the operations                                     *)
(***************************************************************************)
MaxCalls == 3

MaxId == 2

NoEnviron == [f \in FieldNames |-> Missing]

\* Hosts as the class documents them: with http(s):// at the beginning.
Kwargs ==
    [odoo_host : {PyStr(HttpHost), PyStr(HttpsHost), PyStr(HttpNamedHttps),
                  PyStr(UpperHttpsHost)},
     odoo_database : {PyStr(DbName)},
     odoo_user : {Missing},
     odoo_pass : {PyStr(Password)},
     verify_tls : {Missing, PyFalse}]

IdIs(n) == PyTuple(<<IdKey, PyStr(<<"=">>), PyInt(n)>>)

Domains == {PyList(<<>>), PyList(<<IdIs(1)>>)}

IdLists == {PyList(<<PyInt(n)>>) : n \in 1..MaxId}

Limit(n) == PyDict(<< <<LimitKey, PyInt(n)>> >>)

FieldsName == PyDict(<< <<FieldsKey, PyList(<<NameKey>>)>> >>)

NameIs(chars) == PyDict(<< <<NameKey, PyStr(chars)>> >>)

Init == environ = NoEnviron /\ Blank

Calling == self # NoObject /\ validated < MaxCalls

Next ==
    \/ \E kw \in Kwargs : __init__(kw)
    \/ \E q \in Domains \cup {Missing, PyNone}, o \in {Missing, PyDict(<<>>), Limit(1)} :
          Calling /\ search(Partner, q, o)
    \/ \E n \in {<<"t">>} :
          Calling /\ next_id <= MaxId /\ create(Partner, NameIs(n))
    \/ \E q \in IdLists, o \in {Missing, FieldsName} :
          Calling /\ read(Partner, q, o)
    \/ \E q \in IdLists, o \in {Missing, NameIs(<<"a">>)} :
          Calling /\ update(Partner, q, o)
    \/ \E q \in IdLists :
          Calling /\ delete(Partner, q)
    \/ \E q \in Domains, o \in {Missing, FieldsName} :
          Calling /\ search_and_read(Partner, q, o)
    \/ \E t \in {"search", "create", "read", "write", "unlink", "search_read",
                 "browse", "delete"},
          q \in {PyList(<<PyInt(1)>>), NameIs(<<"t">>)} :
          Calling /\ (t = "create" => next_id <= MaxId)
                  /\ query_direct(t, Partner, q, PyDict(<<>>))

Spec == Init /\ [][Next]_vars

(***************************************************************************)
(* Vocabulary of the properties                                            *)
(***************************************************************************)
\* What the caller of API(...) supplied for a field: the keyword argument,
\* else the environment variable, else Missing.
Supplied(name) == IF kwargs[name] # Missing THEN kwargs[name] ELSE environ[name]

Unset(name) == Supplied(name) = Missing

AbsentOrFalsy(name) == Unset(name) \/ ~Truthy(Supplied(name))

Constructed == call.method = "__init__"

\* Python ==, which takes an int and a bool of the same number as equal.
PyEq(a, b) ==
    IF a.t \in {"int", "bool"} /\ b.t \in {"int", "bool"} THEN a.v = b.v ELSE a = b

PublicOperations == {"search", "create", "read", "update", "delete", "search_and_read"}

OperationName(method) ==
    CASE method = "search" -> "search"
      [] method = "create" -> "create"
      [] method = "read" -> "read"
      [] method = "update" -> "write"
      [] method = "delete" -> "unlink"
      [] method = "search_and_read" -> "search_read"

SixNames == {"search", "create", "read", "write", "unlink", "search_read"}

FirstAbsent ==
    IF AbsentOrFalsy("odoo_host") THEN "odoo_host"
    ELSE IF AbsentOrFalsy("odoo_database") THEN "odoo_database"
    ELSE IF AbsentOrFalsy("odoo_pass") THEN "odoo_pass"
    ELSE ""

Lower(c) ==
    CASE c = "H" -> "h" [] c = "T" -> "t" [] c = "P" -> "p" [] c = "S" -> "s"
      [] OTHER -> c

\* The scheme of a URL: what stands before its first colon, in lower case.
SchemeOf(url) ==
    LET colon == CHOOSE i \in 1..Len(url) :
                     url[i] = ":" /\ \A j \in 1..(i - 1) : url[j] # ":"
    IN  [k \in 1..(colon - 1) |-> Lower(url[k])]

(***************************************************************************)
(* Properties of the configuration (ConfigSpec)                            *)
(***************************************************************************)
\* C1: whatever the user id, constructing API with host, database or password
\* absent or falsy raises InputError tagged with the first such field, in the
\* order odoo_host, odoo_database, odoo_pass, and produces no object.
C1_MissingFieldRaisesInputError ==
    (Constructed /\ FirstAbsent # "") =>
        /\ raised.type = "InputError"
        /\ raised.field = FirstAbsent
        /\ self = NoObject

\* C6 as stated: with host, database and password present, an unset user id
\* gives the integer 1 without raising; a user id that is given is held
\* coerced to an integer by every object constructed, and a non-numeric one
\* makes construction fail.
C6_GivenUserIdIsCoerced ==
    Constructed =>
        /\ (FirstAbsent = "" /\ Unset("odoo_user")) =>
              (raised = NoException /\ self # NoObject /\ self.user_id = PyInt(1))
        /\ (~Unset("odoo_user") /\ self # NoObject) =>
              /\ PyIntOf(Supplied("odoo_user")).ok
              /\ self.user_id = PyIntOf(Supplied("odoo_user")).value
        /\ (~Unset("odoo_user") /\ ~PyIntOf(Supplied("odoo_user")).ok) =>
              self = NoObject

\* C6 amended: with host, database and password present, a user id that is
\* unset or falsy (0, the empty string) gives the integer 1 without raising;
\* a truthy user id is held coerced to an integer by every object
\* constructed, and a truthy non-numeric one makes construction fail.
C6_TruthyUserIdIsCoerced ==
    Constructed =>
        /\ (FirstAbsent = "" /\ AbsentOrFalsy("odoo_user")) =>
              (raised = NoException /\ self # NoObject /\ self.user_id = PyInt(1))
        /\ (~AbsentOrFalsy("odoo_user") /\ self # NoObject) =>
              /\ PyIntOf(Supplied("odoo_user")).ok
              /\ self.user_id = PyIntOf(Supplied("odoo_user")).value
        /\ (~AbsentOrFalsy("odoo_user") /\ ~PyIntOf(Supplied("odoo_user")).ok) =>
              (self = NoObject /\ raised.type # "none")

\* C6 witness: the user id " 42" was supplied and the object holds 42.
C6_Witness ==
    /\ Constructed
    /\ Supplied("odoo_user") = PyStr(<<" ", "4", "2">>)
    /\ self # NoObject
    /\ self.user_id = PyInt(42)

PublicCall == call.method \in PublicOperations

\* The query a public operation has to wrap: the one its caller passed.
CallerQuery == call.query

\* C2: search called without options, or with an empty mapping, forwards
\* exactly {"limit": 0} as the options; a non-empty mapping is forwarded
\* unchanged.
C2_SearchDefaultsToLimitZero ==
    call.method = "search" =>
        /\ (call.options = Missing \/ call.options = PyDict(<<>>)) =>
              request.args[7] = Limit(0)
        /\ (call.options.t = "dict" /\ Len(call.options.v) > 0) =>
              request.args[7] = call.options

\* C3: the options every public operation passes to execute_kw are a
\* mapping, also when the caller leaves them out and for create and delete,
\* which take none.
C3_OptionsAreAMapping ==
    PublicCall => request.args[7].t = "dict"

\* C4 as stated: a public operation makes one execute_kw call on a proxy of
\* its own, with (database, user id, password, model, operation name,
\* [query]) where the query is the one the caller passed, and returns the
\* result of that call unchanged.
C4_CallerQueryIsWrapped ==
    (PublicCall /\ CallerQuery # Missing) =>
        /\ request.proxy = Len(connections)
        /\ connections[request.proxy].calls = 1
        /\ SubSeq(request.args, 1, 6) =
              <<self.database, self.user_id, self.user_pass, call.model,
                OperationName(call.method), PyList(<<CallerQuery>>)>>
        /\ request.outcome = "result" => (returned = request.result /\ raised = NoException)
        /\ request.outcome # "result" => (returned = Missing /\ raised.type = request.outcome)

\* C4 amended: as stated, except that search first replaces a falsy query
\* (None, an empty sequence) by an empty list and wraps that.
C4_QueryIsWrapped ==
    (PublicCall /\ CallerQuery # Missing) =>
        /\ request.proxy = Len(connections)
        /\ connections[request.proxy].calls = 1
        /\ SubSeq(request.args, 1, 6) =
              <<self.database, self.user_id, self.user_pass, call.model,
                OperationName(call.method),
                PyList(<<IF call.method = "search" /\ ~Truthy(CallerQuery)
                         THEN PyList(<<>>) ELSE CallerQuery>>)>>
        /\ request.outcome = "result" => (returned = request.result /\ raised = NoException)
        /\ request.outcome # "result" => (returned = Missing /\ raised.type = request.outcome)

\* C4 witness: search was called with None and forwarded [[]], and returned
\* the list of ids the endpoint answered.
C4_Witness ==
    /\ call.method = "search"
    /\ CallerQuery = PyNone
    /\ request.args[6] = PyList(<<PyList(<<>>)>>)
    /\ request.outcome = "result"
    /\ returned = PyList(<<PyInt(1)>>)

\* C5: a _query call with a name outside the six raises InputError with field
\* query_type and a message listing the six names, and creates no connection
\* and makes no remote call; with one of the six names it raises no InputError.
C5_UnknownQueryTypeIsRejected ==
    [][call'.method # "__init__" =>
          IF call'.query_type \notin SixNames
          THEN /\ raised' = InputError("query_type",
                      "Incorrect Type of query. Available types are: "
                      \o "search, create, read, write, unlink, search_read")
               /\ returned' = Missing
               /\ connections' = connections
               /\ request' = request
               /\ validated' = validated
               /\ records' = records
          ELSE /\ raised'.type # "InputError"
               /\ validated' = validated + 1]_vars

\* C5 witness: after a call that went through, _query was called with the
\* name browse and raised the InputError.
C5_Witness ==
    /\ call.method = "_query"
    /\ call.query_type = "browse"
    /\ raised.type = "InputError"
    /\ raised.field = "query_type"
    /\ validated > 0

\* C7 as stated: a connection has the unverified TLS context exactly when the
\* scheme of its endpoint is https and verification is disabled, and the
\* default verification otherwise.
C7_UnverifiedIffHttpsScheme ==
    \A i \in 1..Len(connections) :
        /\ connections[i].context \in {"unverified", "default"}
        /\ connections[i].context = "unverified" <=>
              (SchemeOf(connections[i].endpoint) = Https /\ self.verify_tls = PyFalse)

\* C7 amended: a connection has the unverified TLS context exactly when its
\* endpoint URL contains the text https anywhere, in lower case, and
\* verification is disabled, and the default verification otherwise.
C7_UnverifiedIffContainsHttps ==
    \A i \in 1..Len(connections) :
        /\ connections[i].endpoint = self.hostname.v \o ObjectPath
        /\ connections[i].context \in {"unverified", "default"}
        /\ connections[i].context = "unverified" <=>
              (Contains(Https, connections[i].endpoint) /\ self.verify_tls = PyFalse)

\* C7 witness: a call was made on an https host with verification disabled.
C7_Witness ==
    /\ Len(connections) > 0
    /\ self.hostname = PyStr(HttpsHost)
    /\ self.verify_tls = PyFalse
    /\ connections[1].context = "unverified"

\* C9: against an endpoint that stores records, create returns the id of the
\* new record, update returns true and a following read shows the new value,
\* delete returns true and a following read of the id is empty.  Stated step
\* by step on the calls of src/test/test.py: what each returns and what the
\* endpoint holds after it.
C9_CreateUpdateReadDelete ==
    LET id == call.query.v[1].v[1]
    IN  /\ call.method = "create" =>
              /\ returned.t = "int"
              /\ returned.v[1] \in DOMAIN records
              /\ PyStr(records[returned.v[1]]) = DictGet(call.query, NameKey, PyNone)
        /\ (call.method = "update" /\ call.options # Missing /\ id \in DOMAIN records) =>
              /\ returned = PyTrue
              /\ PyStr(records[id]) = DictGet(call.options, NameKey, PyNone)
        /\ (call.method = "read" /\ call.options # Missing) =>
              returned = RemoteRead(records, <<id>>)
        /\ call.method = "delete" =>
              /\ returned = PyTrue
              /\ id \notin DOMAIN records

\* C10: the connections created are as many as the calls that passed the
\* query_type check; each call creates one connection of its own and makes
\* one remote call on it, an earlier connection is never used again, and no
\* call changes the configuration of the object.
C10_OneConnectionPerCall ==
    /\ [](/\ Len(connections) = validated
          /\ \A i \in 1..Len(connections) : connections[i].calls = 1
          /\ request.proxy = Len(connections))
    /\ [][/\ self # NoObject => self' = self
          /\ validated' # validated =>
                /\ validated' = validated + 1
                /\ Len(connections') = Len(connections) + 1
                /\ SubSeq(connections', 1, Len(connections)) = connections
                /\ request'.proxy = Len(connections')]_vars

\* C10 witness: two calls were made, each on a connection of its own.
C10_Witness ==
    /\ validated = 2
    /\ Len(connections) = 2
    /\ request.proxy = 2
    /\ connections[1].calls = 1
    /\ connections[2].calls = 1

=============================================================================
